---- MODULE Spec2Model ----
(***************************************************************************)
(* Model of the SAT results manager (src/sat.py, class SATResultsManager). *)
(*                                                                         *)
(* The store self.data is the record [max_score, records]; the JSON file   *)
(* is the variable file.  Every handler of the menu loop is cut at its     *)
(* input() calls: one action per prompt, and the action of the last prompt *)
(* carries the mutation, the save and the rollback of the handler.         *)
(*                                                                         *)
(* Text typed by the user is a sequence of one-character strings.          *)
(* Floats are integers in thousandths of a point (480.001 is 480001), with *)
(* NaN for float("nan"); comparisons go through FLt/FGt/FLe/FEq, which     *)
(* follow IEEE-754 (every comparison with NaN is false).  For the maxima   *)
(* the model enumerates, 0.3 * max_score is exact in binary floating point *)
(* (0.3 * 1600 = 480.0, 0.3 * 800 = 240.0).                                *)
(***************************************************************************)
EXTENDS Integers, Sequences, FiniteSets, TLC

VARIABLES data, file, pc, pending, out

vars == <<data, file, pc, pending, out>>

(***************************************************************************)
(* Bounds of the model.                                                    *)
(***************************************************************************)
MaxRecords == 2

(***************************************************************************)
(* Program constants.                                                      *)
(***************************************************************************)
default_max_score == 1600000
MaxNameLen == 100
MinPincodeLen == 3
NaN == -999999999

(***************************************************************************)
(* Floats.                                                                 *)
(***************************************************************************)
FLt(a, b) == a # NaN /\ b # NaN /\ a < b
FGt(a, b) == a # NaN /\ b # NaN /\ a > b
FLe(a, b) == a # NaN /\ b # NaN /\ a <= b
FEq(a, b) == a # NaN /\ b # NaN /\ a = b

\* 0.3 * m
ThreeTenths(m) == IF m = NaN THEN NaN ELSE (3 * m) \div 10

(***************************************************************************)
(* Text: str.strip, str.isdigit, float(str).                               *)
(***************************************************************************)
Whitespace == {" "}
Digits == {"0", "1", "2", "3", "4", "5", "6", "7", "8", "9"}

RECURSIVE LStrip(_)
LStrip(s) ==
    IF s # <<>> /\ Head(s) \in Whitespace THEN LStrip(Tail(s)) ELSE s

RECURSIVE RStrip(_)
RStrip(s) ==
    IF s # <<>> /\ s[Len(s)] \in Whitespace
    THEN RStrip(SubSeq(s, 1, Len(s) - 1))
    ELSE s

Strip(s) == RStrip(LStrip(s))

IsDigit(s) == s # <<>> /\ \A i \in 1..Len(s) : s[i] \in Digits

DigitVal(c) ==
    CASE c = "0" -> 0 [] c = "1" -> 1 [] c = "2" -> 2 [] c = "3" -> 3
      [] c = "4" -> 4 [] c = "5" -> 5 [] c = "6" -> 6 [] c = "7" -> 7
      [] c = "8" -> 8 [] c = "9" -> 9

RECURSIVE DecVal(_)
DecVal(s) ==
    IF s = <<>> THEN 0
    ELSE 10 * DecVal(SubSeq(s, 1, Len(s) - 1)) + DigitVal(s[Len(s)])

\* position of the first "." of s, 0 when there is none
DotPos(s) ==
    IF \E i \in 1..Len(s) : s[i] = "."
    THEN CHOOSE i \in 1..Len(s) :
             s[i] = "." /\ \A j \in 1..(i - 1) : s[j] # "."
    ELSE 0

\* the first three fraction digits, as thousandths
FracVal(f) ==
    LET d(i) == IF i <= Len(f) THEN DigitVal(f[i]) ELSE 0
    IN  100 * d(1) + 10 * d(2) + d(3)

ValueError == [ok |-> FALSE, v |-> 0]

\* float(s) on [sign] digits [. digits] and on "nan"; anything else raises
\* ValueError
ParseFloat(s) ==
    LET t == Strip(s)
        neg == t # <<>> /\ Head(t) = "-"
        u == IF t # <<>> /\ Head(t) \in {"-", "+"} THEN Tail(t) ELSE t
        p == DotPos(u)
        ip == IF p = 0 THEN u ELSE SubSeq(u, 1, p - 1)
        fp == IF p = 0 THEN <<>> ELSE SubSeq(u, p + 1, Len(u))
        wellformed ==
            /\ ip # <<>> \/ fp # <<>>
            /\ \A i \in 1..Len(ip) : ip[i] \in Digits
            /\ \A i \in 1..Len(fp) : fp[i] \in Digits
        mag == 1000 * DecVal(ip) + FracVal(fp)
    IN  IF u = <<"n", "a", "n">> THEN [ok |-> TRUE, v |-> NaN]
        ELSE IF wellformed
             THEN [ok |-> TRUE, v |-> IF neg THEN 0 - mag ELSE mag]
             ELSE ValueError

(***************************************************************************)
(* The JSON file.                                                          *)
(***************************************************************************)
MissingFile == [kind |-> "missing", body |-> <<>>]
UnreadableFile == [kind |-> "unreadable", body |-> <<>>]
BadJsonFile == [kind |-> "badjson", body |-> <<>>]
NonDictFile == [kind |-> "nondict", body |-> <<>>]
DictFile(d) == [kind |-> "dict", body |-> d]

\* SATResultsManager.load_data: the dictionary read from the file, with the
\* missing keys defaulted; a fresh store when the file is absent, cannot be
\* read, is not JSON or is not a JSON object
load_data(f) ==
    IF f.kind = "dict"
    THEN LET d1 == IF "max_score" \in DOMAIN f.body
                   THEN f.body
                   ELSE f.body @@ ("max_score" :> default_max_score)
             d2 == IF "records" \in DOMAIN d1
                   THEN d1
                   ELSE d1 @@ ("records" :> <<>>)
         IN  [max_score |-> d2["max_score"], records |-> d2["records"]]
    ELSE [max_score |-> default_max_score, records |-> <<>>]

\* SATResultsManager.save_data: open(.., "w") truncates the file before
\* json.dump writes it, so a failed save leaves the old file (open failed)
\* or a truncated one (write failed)
SaveOutcomes == {"written", "open_failed", "write_failed"}

\* variant of save_data: the max_score already in the file is kept and only
\* the records are rewritten
save_data_records_only(d, f, o) ==
    CASE o = "written" ->
             [ok |-> TRUE,
              file |-> IF f.kind = "dict"
                       THEN DictFile([d EXCEPT !.max_score = f.body.max_score])
                       ELSE DictFile(d)]
      [] o = "open_failed" -> [ok |-> FALSE, file |-> f]
      [] o = "write_failed" -> [ok |-> FALSE, file |-> BadJsonFile]

save_data(d, f, o) ==
    CASE o = "written" -> [ok |-> TRUE, file |-> DictFile(d)]
      [] o = "open_failed" -> [ok |-> FALSE, file |-> f]
      [] o = "write_failed" -> [ok |-> FALSE, file |-> BadJsonFile]

(***************************************************************************)
(* Validation and the pass rule.                                           *)
(***************************************************************************)
None == [ok |-> FALSE, v |-> 0]

\* variant of validate_score: negative scores are not refused
validate_score_no_floor(score_str, d) ==
    LET p == ParseFloat(score_str)
    IN  IF ~p.ok THEN None
        ELSE IF FGt(p.v, d.max_score) THEN None
        ELSE [ok |-> TRUE, v |-> p.v]

validate_score(score_str, d) ==
    LET p == ParseFloat(score_str)
    IN  IF ~p.ok THEN None
        ELSE IF FLt(p.v, 0) THEN None
        ELSE IF FGt(p.v, d.max_score) THEN None
        ELSE [ok |-> TRUE, v |-> p.v]

\* variant of compute_pass: a score equal to the threshold passes
compute_pass_inclusive(score, d) ==
    FGt(score, ThreeTenths(d.max_score)) \/ FEq(score, ThreeTenths(d.max_score))

compute_pass(score, d) == FGt(score, ThreeTenths(d.max_score))

validate_name(name) ==
    LET n == Strip(name)
    IN  n # <<>> /\ Len(n) <= MaxNameLen

valid_pincode(pincode) ==
    /\ pincode # <<>>
    /\ IsDigit(pincode)
    /\ Len(pincode) >= MinPincodeLen

(***************************************************************************)
(* Dictionary updates.                                                     *)
(***************************************************************************)
DictSet(r, k, v) == [n \in DOMAIN r \cup {k} |-> IF n = k THEN v ELSE r[n]]
DictDel(r, k) == [n \in DOMAIN r \ {k} |-> r[n]]

\* list(r.values())
RECURSIVE DictValues(_)
DictValues(r) ==
    IF DOMAIN r = {} THEN <<>>
    ELSE LET k == CHOOSE n \in DOMAIN r : TRUE
         IN  <<r[k]>> \o DictValues([n \in DOMAIN r \ {k} |-> r[n]])

\* variant of Recomputed: the flags are left as they are
Recomputed_stale(d) == d.records

\* the pass rule reapplied to every record of the store d
Recomputed(d) ==
    [n \in DOMAIN d.records |->
        [d.records[n] EXCEPT
            !.passed = compute_pass(d.records[n].sat_score, d)]]

\* variant of FlippedCount: the records that pass after the change are counted
FlippedCount_passing(old_records, new_records) ==
    Cardinality({n \in DOMAIN old_records : new_records[n].passed})

\* set_max_score's updated_count: the records whose flag the loop changed
FlippedCount(old_records, new_records) ==
    Cardinality({n \in DOMAIN old_records :
                    old_records[n].passed # new_records[n].passed})

(***************************************************************************)
(* The rollbacks of the handlers, taken when save_data returns False.      *)
(***************************************************************************)
\* insert_data: del self.data["records"][name]
insert_rollback(d, name) ==
    [d EXCEPT !.records = DictDel(d.records, name)]

\* variant of update_rollback: the record is removed, as insert_data does
update_rollback_removes(d, name, old_score, old_status) ==
    [d EXCEPT !.records = DictDel(d.records, name)]

\* update_score: the old score and the old status are put back
update_rollback(d, name, old_score, old_status) ==
    [d EXCEPT !.records[name] =
        [d.records[name] EXCEPT
            !.sat_score = old_score, !.passed = old_status]]

\* delete_one_record: the copy taken before the deletion is put back
delete_rollback(d, name, backup_record) ==
    [d EXCEPT !.records = DictSet(d.records, name, backup_record)]

\* variant of set_max_rollback: the flags computed for the new maximum stay
set_max_rollback_flags_kept(d, old_max) == [d EXCEPT !.max_score = old_max]

\* set_max_score: the old maximum is put back and the flags are recomputed
set_max_rollback(d, old_max) ==
    LET restored == [d EXCEPT !.max_score = old_max]
    IN  [restored EXCEPT !.records = Recomputed(restored)]

(***************************************************************************)
(* What the user can type.                                                 *)
(***************************************************************************)
Ann == <<"a", "n", "n">>
Bob == <<"b", "o", "b">>
Cy == <<"c", "y">>
LongName == [i \in 1..(MaxNameLen + 1) |-> "x"]

NameInputs == {<<>>, <<" ">>, Ann, Ann \o <<" ">>, Bob, Cy, LongName}
AddressInputs == {<<"M", "a", "i", "n", " ", "S", "t">>}
CityInputs == {<<"R", "i", "o">>}
CountryInputs == {<<"B", "R">>}
PincodeInputs == {<<>>, <<"1", "2">>, <<"1", "2", "a">>, <<"1", "2", "3">>}
ScoreInputs ==
    { <<>>, <<"a", "b", "c">>, <<"-", "1">>, <<"n", "a", "n">>,
      <<"4", "7", "9", ".", "9", "9", "9">>, <<"4", "8", "0">>,
      <<"4", "8", "0", ".", "0", "0", "1">>, <<"1", "0", "0", "0">>,
      <<"2", "0", "0", "0">> }
MaxScoreInputs ==
    { <<>>, <<"a", "b", "c">>, <<"0">>, <<"-", "5">>, <<"n", "a", "n">>,
      <<"8", "0", "0">>, <<"1", "6", "0", "0">> }
DeletePrefix == <<"D", "E", "L", "E", "T", "E", " ">>
ConfirmInputs ==
    { <<>>, <<"y", "e", "s">>, DeletePrefix \o Ann, DeletePrefix \o Bob,
      DeletePrefix \o Cy }

(***************************************************************************)
(* State of the handler in progress and the last report printed.           *)
(***************************************************************************)
NoLocals ==
    [name |-> <<>>, address |-> <<>>, city |-> <<>>, country |-> <<>>,
     pincode |-> <<>>]

\* op: the handler; result: what it printed; name: the candidate it works on;
\* input: the text just typed, stripped; detail: the figures it printed
Report(op, result, name, input, detail) ==
    [op |-> op, result |-> result, name |-> name, input |-> input,
     detail |-> detail]

Init ==
    /\ file = MissingFile
    /\ data = load_data(file)
    /\ pc = "menu"
    /\ pending = NoLocals
    /\ out = Report("start", "ok", <<>>, <<>>, <<>>)

(***************************************************************************)
(* insert_data                                                             *)
(***************************************************************************)
insert_data_begin ==
    /\ pc = "menu"
    /\ Cardinality(DOMAIN data.records) < MaxRecords
    /\ pc' = "insert_name"
    /\ out' = Report("insert", "prompt", <<>>, <<>>, <<>>)
    /\ UNCHANGED <<data, file, pending>>

\* variant of insert_data_name: a name already in the store is accepted
insert_data_name_unchecked(raw) ==
    LET name == Strip(raw)
    IN  /\ pc = "insert_name"
        /\ IF ~validate_name(name)
           THEN /\ pc' = "insert_name"
                /\ out' = Report("insert", "rejected", name, name, <<>>)
                /\ UNCHANGED pending
           ELSE /\ pc' = "insert_address"
                /\ out' = Report("insert", "prompt", name, name, <<>>)
                /\ pending' = [pending EXCEPT !.name = name]
        /\ UNCHANGED <<data, file>>

\* the name prompt: re-prompts on an invalid name, returns on a known one
insert_data_name(raw) ==
    LET name == Strip(raw)
    IN  /\ pc = "insert_name"
        /\ IF ~validate_name(name)
           THEN /\ pc' = "insert_name"
                /\ out' = Report("insert", "rejected", name, name, <<>>)
                /\ UNCHANGED pending
           ELSE IF name \in DOMAIN data.records
           THEN /\ pc' = "menu"
                /\ out' = Report("insert", "exists", name, name, <<>>)
                /\ pending' = NoLocals
           ELSE /\ pc' = "insert_address"
                /\ out' = Report("insert", "prompt", name, name, <<>>)
                /\ pending' = [pending EXCEPT !.name = name]
        /\ UNCHANGED <<data, file>>

insert_data_address(raw) ==
    /\ pc = "insert_address"
    /\ pending' = [pending EXCEPT !.address = Strip(raw)]
    /\ pc' = "insert_city"
    /\ UNCHANGED <<data, file, out>>

insert_data_city(raw) ==
    /\ pc = "insert_city"
    /\ pending' = [pending EXCEPT !.city = Strip(raw)]
    /\ pc' = "insert_country"
    /\ UNCHANGED <<data, file, out>>

insert_data_country(raw) ==
    /\ pc = "insert_country"
    /\ pending' = [pending EXCEPT !.country = Strip(raw)]
    /\ pc' = "insert_pincode"
    /\ UNCHANGED <<data, file, out>>

insert_data_pincode(raw) ==
    LET pincode == Strip(raw)
    IN  /\ pc = "insert_pincode"
        /\ IF valid_pincode(pincode)
           THEN /\ pending' = [pending EXCEPT !.pincode = pincode]
                /\ pc' = "insert_score"
                /\ out' = Report("insert", "prompt", pending.name, pincode,
                                 <<>>)
           ELSE /\ pc' = "insert_pincode"
                /\ out' = Report("insert", "rejected", pending.name,
                                 pincode, <<>>)
                /\ UNCHANGED pending
        /\ UNCHANGED <<data, file>>

\* the score prompt and, once the score is accepted, the rest of insert_data
insert_data_score(raw, o) ==
    LET score == validate_score(Strip(raw), data)
        name == pending.name
        record ==
            [name |-> name, address |-> pending.address,
             city |-> pending.city, country |-> pending.country,
             pincode |-> pending.pincode, sat_score |-> score.v,
             passed |-> compute_pass(score.v, data)]
        added == [data EXCEPT !.records = DictSet(data.records, name, record)]
        saved == save_data(added, file, o)
    IN  /\ pc = "insert_score"
        /\ IF ~score.ok
           THEN /\ pc' = "insert_score"
                /\ out' = Report("insert", "rejected", name, Strip(raw), <<>>)
                /\ UNCHANGED <<data, file, pending>>
           ELSE /\ file' = saved.file
                /\ data' = IF saved.ok
                           THEN added
                           ELSE insert_rollback(added, name)
                /\ out' = Report("insert",
                                 IF saved.ok THEN "saved" ELSE "save_failed",
                                 name, Strip(raw), <<>>)
                /\ pc' = "menu"
                /\ pending' = NoLocals

(***************************************************************************)
(* get_rank                                                                *)
(***************************************************************************)
\* variant of RankReport: the scores equal to the candidate's count as higher
RankReport_inclusive(d, name) ==
    LET candidate == d.records[name]
        my_score == candidate.sat_score
        values == DictValues(d.records)
        all_scores == [i \in 1..Len(values) |-> values[i].sat_score]
        higher_count ==
            Cardinality({i \in 1..Len(all_scores) :
                            FGt(all_scores[i], my_score)
                            \/ FEq(all_scores[i], my_score)})
        rank == higher_count + 1
        same_score_count ==
            Cardinality({i \in 1..Len(all_scores) :
                            FEq(all_scores[i], my_score)})
        total_candidates == Len(all_scores)
    IN  [score |-> my_score, rank |-> rank, total |-> total_candidates,
         percentile |-> ((total_candidates - rank + 1) * 100000)
                            \div total_candidates,
         passed |-> candidate.passed, ties |-> same_score_count]

\* variant of RankReport: equal scores are ranked in the order of the list
RankReport_positional(d, name) ==
    LET candidate == d.records[name]
        my_score == candidate.sat_score
        values == DictValues(d.records)
        all_scores == [i \in 1..Len(values) |-> values[i].sat_score]
        me == CHOOSE i \in 1..Len(values) : values[i].name = name
        higher_count ==
            Cardinality({i \in 1..Len(all_scores) :
                            \/ FGt(all_scores[i], my_score)
                            \/ FEq(all_scores[i], my_score) /\ i < me})
        rank == higher_count + 1
        same_score_count ==
            Cardinality({i \in 1..Len(all_scores) :
                            FEq(all_scores[i], my_score)})
        total_candidates == Len(all_scores)
    IN  [score |-> my_score, rank |-> rank, total |-> total_candidates,
         percentile |-> ((total_candidates - rank + 1) * 100000)
                            \div total_candidates,
         passed |-> candidate.passed, ties |-> same_score_count]

\* rank, total, percentile (thousandths of a percent) and tie count
RankReport(d, name) ==
    LET candidate == d.records[name]
        my_score == candidate.sat_score
        values == DictValues(d.records)
        all_scores == [i \in 1..Len(values) |-> values[i].sat_score]
        higher_count ==
            Cardinality({i \in 1..Len(all_scores) :
                            FGt(all_scores[i], my_score)})
        rank == higher_count + 1
        same_score_count ==
            Cardinality({i \in 1..Len(all_scores) :
                            FEq(all_scores[i], my_score)})
        total_candidates == Len(all_scores)
    IN  [score |-> my_score, rank |-> rank, total |-> total_candidates,
         percentile |-> ((total_candidates - rank + 1) * 100000)
                            \div total_candidates,
         passed |-> candidate.passed, ties |-> same_score_count]

get_rank_begin ==
    /\ pc = "menu"
    /\ IF DOMAIN data.records = {}
       THEN /\ pc' = "menu"
            /\ out' = Report("rank", "no_records", <<>>, <<>>, <<>>)
       ELSE /\ pc' = "rank_name"
            /\ out' = Report("rank", "prompt", <<>>, <<>>, <<>>)
    /\ UNCHANGED <<data, file, pending>>

get_rank_name(raw) ==
    LET name == Strip(raw)
    IN  /\ pc = "rank_name"
        /\ pc' = "menu"
        /\ out' = IF name \notin DOMAIN data.records
                  THEN Report("rank", "not_found", name, name, <<>>)
                  ELSE Report("rank", "ok", name, name, RankReport(data, name))
        /\ UNCHANGED <<data, file, pending>>

(***************************************************************************)
(* update_score                                                            *)
(***************************************************************************)
update_score_begin ==
    /\ pc = "menu"
    /\ IF DOMAIN data.records = {}
       THEN /\ pc' = "menu"
            /\ out' = Report("update", "no_records", <<>>, <<>>, <<>>)
       ELSE /\ pc' = "update_name"
            /\ out' = Report("update", "prompt", <<>>, <<>>, <<>>)
    /\ UNCHANGED <<data, file, pending>>

update_score_name(raw) ==
    LET name == Strip(raw)
    IN  /\ pc = "update_name"
        /\ IF name \notin DOMAIN data.records
           THEN /\ pc' = "menu"
                /\ out' = Report("update", "not_found", name, name, <<>>)
                /\ UNCHANGED pending
           ELSE /\ pc' = "update_score"
                /\ out' = Report("update", "prompt", name, name, <<>>)
                /\ pending' = [pending EXCEPT !.name = name]
        /\ UNCHANGED <<data, file>>

\* the score prompt and, once the score is accepted, the rest of update_score
update_score_score(raw, o) ==
    LET new_score == validate_score(Strip(raw), data)
        name == pending.name
        current_record == data.records[name]
        old_score == current_record.sat_score
        old_status == current_record.passed
        updated ==
            [data EXCEPT !.records[name] =
                [current_record EXCEPT
                    !.sat_score = new_score.v,
                    !.passed = compute_pass(new_score.v, data)]]
        saved == save_data(updated, file, o)
    IN  /\ pc = "update_score"
        /\ IF ~new_score.ok
           THEN /\ pc' = "update_score"
                /\ out' = Report("update", "rejected", name, Strip(raw), <<>>)
                /\ UNCHANGED <<data, file, pending>>
           ELSE /\ file' = saved.file
                /\ data' = IF saved.ok
                           THEN updated
                           ELSE update_rollback(updated, name, old_score,
                                                old_status)
                /\ out' = Report("update",
                                 IF saved.ok THEN "saved" ELSE "save_failed",
                                 name, Strip(raw), <<>>)
                /\ pc' = "menu"
                /\ pending' = NoLocals

(***************************************************************************)
(* delete_one_record                                                       *)
(***************************************************************************)
delete_one_record_begin ==
    /\ pc = "menu"
    /\ IF DOMAIN data.records = {}
       THEN /\ pc' = "menu"
            /\ out' = Report("delete", "no_records", <<>>, <<>>, <<>>)
       ELSE /\ pc' = "delete_name"
            /\ out' = Report("delete", "prompt", <<>>, <<>>, <<>>)
    /\ UNCHANGED <<data, file, pending>>

\* variant of delete_one_record_name: an unknown name goes on to the
\* confirmation
delete_one_record_name_unchecked(raw) ==
    LET name == Strip(raw)
    IN  /\ pc = "delete_name"
        /\ pc' = "delete_confirm"
        /\ out' = Report("delete", "prompt", name, name, <<>>)
        /\ pending' = [pending EXCEPT !.name = name]
        /\ UNCHANGED <<data, file>>

\* the name prompt of delete_one_record
delete_one_record_name(raw) ==
    LET name == Strip(raw)
    IN  /\ pc = "delete_name"
        /\ IF name \notin DOMAIN data.records
           THEN /\ pc' = "menu"
                /\ out' = Report("delete", "not_found", name, name, <<>>)
                /\ UNCHANGED pending
           ELSE /\ pc' = "delete_confirm"
                /\ out' = Report("delete", "prompt", name, name, <<>>)
                /\ pending' = [pending EXCEPT !.name = name]
        /\ UNCHANGED <<data, file>>

\* variant of delete_one_record_confirm: "yes" confirms as well
delete_one_record_confirm_yes(raw, o) ==
    LET confirm == Strip(raw)
        name == pending.name
        backup_record == data.records[name]
        deleted == [data EXCEPT !.records = DictDel(data.records, name)]
        saved == save_data(deleted, file, o)
    IN  /\ pc = "delete_confirm"
        /\ IF confirm = DeletePrefix \o name \/ confirm = <<"y", "e", "s">>
           THEN /\ file' = saved.file
                /\ data' = IF saved.ok
                           THEN deleted
                           ELSE delete_rollback(deleted, name, backup_record)
                /\ out' = Report("delete",
                                 IF saved.ok THEN "saved" ELSE "save_failed",
                                 name, confirm, <<>>)
           ELSE /\ out' = Report("delete", "cancelled", name, confirm, <<>>)
                /\ UNCHANGED <<data, file>>
        /\ pc' = "menu"
        /\ pending' = NoLocals

\* the confirmation prompt and the rest of delete_one_record
delete_one_record_confirm(raw, o) ==
    LET confirm == Strip(raw)
        name == pending.name
        backup_record == data.records[name]
        deleted == [data EXCEPT !.records = DictDel(data.records, name)]
        saved == save_data(deleted, file, o)
    IN  /\ pc = "delete_confirm"
        /\ IF confirm = DeletePrefix \o name
           THEN /\ file' = saved.file
                /\ data' = IF saved.ok
                           THEN deleted
                           ELSE delete_rollback(deleted, name, backup_record)
                /\ out' = Report("delete",
                                 IF saved.ok THEN "saved" ELSE "save_failed",
                                 name, confirm, <<>>)
           ELSE /\ out' = Report("delete", "cancelled", name, confirm, <<>>)
                /\ UNCHANGED <<data, file>>
        /\ pc' = "menu"
        /\ pending' = NoLocals

(***************************************************************************)
(* set_max_score                                                           *)
(***************************************************************************)
set_max_score_begin ==
    /\ pc = "menu"
    /\ pc' = "setmax_input"
    /\ out' = Report("set_max", "prompt", <<>>, <<>>, <<>>)
    /\ UNCHANGED <<data, file, pending>>

\* the prompt and, once a positive number is typed, the rest of set_max_score
set_max_score_input(raw, o) ==
    LET new_max_input == Strip(raw)
        new_max == ParseFloat(new_max_input)
        old_max == data.max_score
        raised == [data EXCEPT !.max_score = new_max.v]
        changed == [raised EXCEPT !.records = Recomputed(raised)]
        updated_count == FlippedCount(data.records, changed.records)
        saved == save_data(changed, file, o)
    IN  /\ pc = "setmax_input"
        /\ IF new_max_input = <<>>
           THEN /\ pc' = "menu"
                /\ out' = Report("set_max", "cancelled", <<>>,
                                 new_max_input, <<>>)
                /\ UNCHANGED <<data, file>>
           ELSE IF ~new_max.ok \/ FLe(new_max.v, 0)
           THEN /\ pc' = "setmax_input"
                /\ out' = Report("set_max", "rejected", <<>>,
                                 new_max_input, <<>>)
                /\ UNCHANGED <<data, file>>
           ELSE /\ file' = saved.file
                /\ data' = IF saved.ok
                           THEN changed
                           ELSE set_max_rollback(changed, old_max)
                /\ out' = Report("set_max",
                                 IF saved.ok THEN "saved" ELSE "save_failed",
                                 <<>>, new_max_input,
                                 [old_max |-> old_max, new_max |-> new_max.v,
                                  updated_count |-> updated_count])
                /\ pc' = "menu"
        /\ UNCHANGED pending

(***************************************************************************)
(* explicit_save, the exit choice and an unknown choice of run             *)
(***************************************************************************)
explicit_save(o) ==
    LET saved == save_data(data, file, o)
    IN  /\ pc = "menu"
        /\ file' = saved.file
        /\ out' = Report("save", IF saved.ok THEN "saved" ELSE "save_failed",
                         <<>>, <<>>, <<>>)
        /\ UNCHANGED <<data, pc, pending>>

run_exit ==
    /\ pc = "menu"
    /\ pc' = "exit"
    /\ out' = Report("exit", "ok", <<>>, <<>>, <<>>)
    /\ UNCHANGED <<data, file, pending>>

run_invalid_choice ==
    /\ pc = "menu"
    /\ out' = Report("menu", "rejected", <<>>, <<>>, <<>>)
    /\ UNCHANGED <<data, file, pc, pending>>

(***************************************************************************)
(* The program started on no data file.                                    *)
(***************************************************************************)
Next ==
    \/ insert_data_begin
    \/ \E raw \in NameInputs : insert_data_name(raw)
    \/ \E raw \in AddressInputs : insert_data_address(raw)
    \/ \E raw \in CityInputs : insert_data_city(raw)
    \/ \E raw \in CountryInputs : insert_data_country(raw)
    \/ \E raw \in PincodeInputs : insert_data_pincode(raw)
    \/ \E raw \in ScoreInputs, o \in SaveOutcomes : insert_data_score(raw, o)
    \/ get_rank_begin
    \/ \E raw \in NameInputs : get_rank_name(raw)
    \/ update_score_begin
    \/ \E raw \in NameInputs : update_score_name(raw)
    \/ \E raw \in ScoreInputs, o \in SaveOutcomes : update_score_score(raw, o)
    \/ delete_one_record_begin
    \/ \E raw \in NameInputs : delete_one_record_name(raw)
    \/ \E raw \in ConfirmInputs, o \in SaveOutcomes :
           delete_one_record_confirm(raw, o)
    \/ set_max_score_begin
    \/ \E raw \in MaxScoreInputs, o \in SaveOutcomes :
           set_max_score_input(raw, o)
    \/ \E o \in SaveOutcomes : explicit_save(o)
    \/ run_exit
    \/ run_invalid_choice

Spec == Init /\ [][Next]_vars

(***************************************************************************)
(* The program started on an arbitrary data file: __init__ and load_data.  *)
(***************************************************************************)
Unset == <<>>

DocRecord(score, passed) ==
    [name |-> Ann, address |-> <<"M", "a", "i", "n", " ", "S", "t">>,
     city |-> <<"R", "i", "o">>, country |-> <<"B", "R">>,
     pincode |-> <<"1", "2", "3">>, sat_score |-> score, passed |-> passed]

DocMaxScores == {1600000, 800000, 0, -5000, NaN}
DocScores == {480000, 1000000, 2000000, -1000}
DocRecordSets ==
    {<<>>} \cup {Ann :> DocRecord(s, p) : s \in DocScores, p \in BOOLEAN}

\* the JSON objects with or without each of the two keys
DocBodies ==
    {<<>>}
    \cup {[max_score |-> m] : m \in DocMaxScores}
    \cup {[records |-> r] : r \in DocRecordSets}
    \cup {[max_score |-> m, records |-> r] :
             m \in DocMaxScores, r \in DocRecordSets}

FileDocs ==
    {MissingFile, UnreadableFile, BadJsonFile, NonDictFile}
    \cup {DictFile(b) : b \in DocBodies}

InitLoad ==
    /\ file \in FileDocs
    /\ data = Unset
    /\ pc = "init"
    /\ pending = NoLocals
    /\ out = Report("start", "ok", <<>>, <<>>, <<>>)

\* SATResultsManager.__init__
construct ==
    /\ pc = "init"
    /\ data' = load_data(file)
    /\ pc' = "menu"
    /\ out' = Report("load",
                     IF file.kind \in {"unreadable", "badjson", "nondict"}
                     THEN "warning" ELSE "ok",
                     <<>>, <<>>, <<>>)
    /\ UNCHANGED <<file, pending>>

NextLoad == construct

SpecLoad == InitLoad /\ [][NextLoad]_vars

(***************************************************************************)
(* Properties.                                                             *)
(***************************************************************************)
MutatingOps == {"insert", "update", "delete", "set_max"}

\* the pass rule of the data model, in exact arithmetic
PassRule(score, max_score) ==
    score # NaN /\ max_score # NaN /\ 10 * score > 3 * max_score

\* C1: in every state reached from the empty default store by insert,
\* update-score, delete and set-max-score, with saves that succeed or fail,
\* every record has passed = (sat_score > 0.3 * max_score) for the current
\* max_score.
C1_PassFlagInvariant ==
    \A n \in DOMAIN data.records :
        data.records[n].passed
            <=> PassRule(data.records[n].sat_score, data.max_score)

\* a saved change of max_score has flipped the flag of a record
C1_Witness ==
    /\ pc = "menu"
    /\ out.op = "set_max" /\ out.result = "saved"
    /\ out.detail.updated_count > 0
    /\ \E n \in DOMAIN data.records : data.records[n].passed

\* C2: in every state reached from the empty default store every record has
\* 0 <= sat_score <= max_score for the current max_score, also after
\* set-max-score lowers max_score below the score of a record.
C2_ScoreWithinMax ==
    \A n \in DOMAIN data.records :
        /\ FLe(0, data.records[n].sat_score)
        /\ FLe(data.records[n].sat_score, data.max_score)

C4_InsertExistingNameFails ==
    [][/\ (pc = "insert_name" /\ out'.input \in DOMAIN data.records)
            => /\ out'.result = "exists"
               /\ pc' = "menu"
               /\ data' = data
               /\ file' = file
       /\ out'.op = "insert"
            => \A n \in DOMAIN data.records :
                   /\ n \in DOMAIN data'.records
                   /\ data'.records[n] = data.records[n]
       /\ \A n \in DOMAIN data'.records : data'.records[n].name = n]_vars

\* insert has just refused the name of a stored record
C4_Witness ==
    /\ pc = "menu"
    /\ out.op = "insert" /\ out.result = "exists"
    /\ out.input \in DOMAIN data.records

\* C5: delete with a name that is not a key of the store leaves max_score and
\* all records unchanged and does not write the file, in an empty store and
\* in a store with records.
C5_DeleteUnknownNameNoEffect ==
    [][/\ (pc = "delete_name" /\ out'.input \notin DOMAIN data.records)
            => /\ out'.result = "not_found"
               /\ pc' = "menu"
               /\ data' = data
               /\ file' = file
       /\ (pc = "menu" /\ out'.op = "delete" /\ DOMAIN data.records = {})
            => /\ out'.result = "no_records"
               /\ pc' = "menu"
               /\ data' = data
               /\ file' = file]_vars

\* delete has just been given a name that a store with records does not hold
C5_Witness ==
    /\ pc = "menu"
    /\ out.op = "delete" /\ out.result = "not_found"
    /\ out.input # <<>>
    /\ DOMAIN data.records # {}

C7_RankStableUnderTies ==
    \A a \in DOMAIN data.records :
        /\ \A b \in DOMAIN data.records :
               FEq(data.records[a].sat_score, data.records[b].sat_score)
                   => RankReport(data, a).rank = RankReport(data, b).rank
        /\ (\A c \in DOMAIN data.records :
               ~FGt(data.records[c].sat_score, data.records[a].sat_score))
               => RankReport(data, a).rank = 1

\* get-rank has just reported one of two candidates tied at the top
C7_Witness ==
    /\ out.op = "rank" /\ out.result = "ok"
    /\ out.detail.ties = 2 /\ out.detail.rank = 1

\* the inputs the data model refuses
BadName(t) == t = <<>> \/ Len(t) > 100
BadPincode(t) ==
    t = <<>> \/ (\E i \in 1..Len(t) : t[i] \notin Digits) \/ Len(t) < 3
BadScore(t, max_score) ==
    \/ ~ParseFloat(t).ok
    \/ FLt(ParseFloat(t).v, 0)
    \/ FGt(ParseFloat(t).v, max_score)
BadMaxScore(t) == t # <<>> /\ (~ParseFloat(t).ok \/ FLe(ParseFloat(t).v, 0))

\* a record of the data model under the maximum max_score, stored under n
ValidRecord(n, r, max_score) ==
    /\ r.name = n
    /\ ~BadName(r.name)
    /\ ~BadPincode(r.pincode)
    /\ FLe(0, r.sat_score) /\ FLe(r.sat_score, max_score)
    /\ r.passed <=> PassRule(r.sat_score, max_score)

\* a file that is missing, unreadable, not JSON, not a JSON object, or an
\* object whose max_score is not positive or whose records break the data
\* model
InvalidStoreFile(f) ==
    \/ f.kind # "dict"
    \/ /\ "max_score" \in DOMAIN f.body
       /\ ~FGt(f.body.max_score, 0)
    \/ /\ "records" \in DOMAIN f.body
       /\ \E n \in DOMAIN f.body.records :
              ~ValidRecord(n, f.body.records[n],
                           IF "max_score" \in DOMAIN f.body
                           THEN f.body.max_score ELSE default_max_score)

\* C8: when the data file is missing, is not JSON or is not a valid store,
\* load() leaves the empty store with the default max_score in memory.
C8_LoadFallsBackToEmptyStore ==
    (pc = "menu" /\ out.op = "load" /\ InvalidStoreFile(file))
        => data = [max_score |-> default_max_score, records |-> <<>>]

\* C9: right after an insert, update-score, delete or set-max-score whose
\* save succeeded, the file holds the whole store in memory: the new
\* max_score, every record, and flags that agree with that max_score.
C9_FileHoldsWholeStore ==
    (out.op \in MutatingOps /\ out.result = "saved")
        => /\ file.kind = "dict"
           /\ file.body = data
           /\ \A n \in DOMAIN file.body.records :
                  file.body.records[n].passed
                      <=> PassRule(file.body.records[n].sat_score,
                                   file.body.max_score)

\* the file written by a set-max-score that lowered the maximum to 800 and
\* turned a failed record into a passed one
C9_Witness ==
    /\ out.op = "set_max" /\ out.result = "saved"
    /\ out.detail.old_max = default_max_score
    /\ out.detail.updated_count > 0
    /\ file.kind = "dict"
    /\ file.body.max_score = 800000
    /\ \E n \in DOMAIN file.body.records : file.body.records[n].passed

\* C10: an input that insert, update-score or set-max-score refuses is
\* re-prompted with the store and the file unchanged, and these operations
\* touch the store or the file only in the step that follows the acceptance
\* of their last field, every field before it having been accepted.
C10_NoPartialMutation ==
    [][/\ (\/ pc = "insert_name" /\ BadName(out'.input)
           \/ pc = "insert_pincode" /\ BadPincode(out'.input)
           \/ /\ pc \in {"insert_score", "update_score"}
              /\ BadScore(out'.input, data.max_score)
           \/ pc = "setmax_input" /\ BadMaxScore(out'.input))
            => /\ pc' = pc
               /\ out'.result = "rejected"
               /\ data' = data
               /\ file' = file
               /\ pending' = pending
       /\ out'.result = "rejected" => (data' = data /\ file' = file)
       /\ (/\ pc \notin {"menu", "delete_name", "delete_confirm", "rank_name"}
           /\ data' # data \/ file' # file)
            => /\ pc' = "menu"
               /\ out'.result \in {"saved", "save_failed"}
               /\ \/ /\ pc = "insert_score"
                     /\ ~BadName(pending.name)
                     /\ ~BadPincode(pending.pincode)
                     /\ ~BadScore(out'.input, data.max_score)
                  \/ /\ pc = "update_score"
                     /\ ~BadScore(out'.input, data.max_score)
                  \/ /\ pc = "setmax_input"
                     /\ out'.input # <<>>
                     /\ ~BadMaxScore(out'.input)]_vars

\* insert is asking for the score again after refusing a negative one, the
\* name and the pincode being accepted and nothing stored
C10_Witness ==
    /\ pc = "insert_score"
    /\ out.result = "rejected" /\ out.input = <<"-", "1">>
    /\ pending.name = Ann /\ pending.pincode = <<"1", "2", "3">>
    /\ Ann \notin DOMAIN data.records

\* C11: the pass rule is strict at 30% of max_score: with max_score 1600 a
\* record inserted or updated with score 480.001 is passed, one with 479.999
\* is not, and one with exactly 480 is not.
C11_StrictThreshold ==
    [][(/\ pc \in {"insert_score", "update_score"}
        /\ data.max_score = 1600000
        /\ out'.result = "saved")
          => LET passed == data'.records[out'.name].passed
             IN  /\ out'.input = <<"4", "8", "0", ".", "0", "0", "1">>
                      => passed
                 /\ out'.input = <<"4", "7", "9", ".", "9", "9", "9">>
                      => ~passed
                 /\ out'.input = <<"4", "8", "0">> => ~passed]_vars

\* a record has just been stored with exactly 480 under max_score 1600, next
\* to one stored with 480.001
C11_Witness ==
    /\ pc = "menu"
    /\ out.op \in {"insert", "update"} /\ out.result = "saved"
    /\ out.input = <<"4", "8", "0">>
    /\ data.max_score = 1600000
    /\ data.records[out.name].sat_score = 480000
    /\ \E n \in DOMAIN data.records :
           data.records[n].sat_score = 480001 /\ data.records[n].passed

\* C12: max_score is a positive number in every reachable state, whatever is
\* typed at set-max-score and whether its save succeeds, fails or it is
\* cancelled.
C12_MaxScorePositive == FGt(data.max_score, 0)

\* C13: a set-max-score whose save succeeds reapplies the pass rule to every
\* record, and the number of flipped records it computes is the number of
\* records whose passed differs before and after; scores and names are
\* unchanged.
C13_FlippedCount ==
    [][(pc = "setmax_input" /\ out'.result = "saved")
          => /\ DOMAIN data'.records = DOMAIN data.records
             /\ \A n \in DOMAIN data.records :
                    /\ data'.records[n]
                         = [data.records[n] EXCEPT
                              !.passed = data'.records[n].passed]
                    /\ data'.records[n].passed
                         <=> PassRule(data.records[n].sat_score,
                                      data'.max_score)
             /\ out'.detail.updated_count
                  = Cardinality({n \in DOMAIN data.records :
                        data'.records[n].passed # data.records[n].passed})]_vars

\* a saved set-max-score that flipped one of two records
C13_Witness ==
    /\ pc = "menu"
    /\ out.op = "set_max" /\ out.result = "saved"
    /\ out.detail.updated_count = 1
    /\ Cardinality(DOMAIN data.records) = 2

\* C14: a name leaves the store only in a delete of that name whose
\* confirmation is DELETE followed by the name and whose save succeeds; any
\* other confirmation leaves the store and the file unchanged.
C14_DeleteOnlyOnConfirmation ==
    [][/\ \A n \in DOMAIN data.records \ DOMAIN data'.records :
              /\ pc = "delete_confirm"
              /\ pending.name = n
              /\ out'.input = DeletePrefix \o n
              /\ out'.result = "saved"
       /\ (pc = "delete_confirm" /\ out'.input # DeletePrefix \o pending.name)
            => /\ out'.result = "cancelled"
               /\ data' = data
               /\ file' = file]_vars

\* a confirmed delete has just removed one of two records
C14_Witness ==
    /\ pc = "menu"
    /\ out.op = "delete" /\ out.result = "saved"
    /\ out.input = DeletePrefix \o out.name
    /\ out.name \notin DOMAIN data.records
    /\ DOMAIN data.records # {}

\* C15: update-score on a stored name changes only that record's sat_score
\* and passed, whether the save succeeds or fails: max_score, the names, the
\* other records and the record's other fields stay; update-score on a name
\* that is not stored changes nothing.
C15_UpdateFrame ==
    [][/\ pc = "update_score"
            => /\ data'.max_score = data.max_score
               /\ DOMAIN data'.records = DOMAIN data.records
               /\ \A n \in DOMAIN data.records :
                      IF n = pending.name
                      THEN data'.records[n]
                             = [data.records[n] EXCEPT
                                  !.sat_score = data'.records[n].sat_score,
                                  !.passed = data'.records[n].passed]
                      ELSE data'.records[n] = data.records[n]
       /\ (pc = "update_name" /\ out'.input \notin DOMAIN data.records)
            => /\ out'.result = "not_found"
               /\ pc' = "menu"
               /\ data' = data
               /\ file' = file
       /\ (pc = "menu" /\ out'.op = "update" /\ DOMAIN data.records = {})
            => /\ out'.result = "no_records"
               /\ data' = data
               /\ file' = file]_vars

\* update-score's save has just failed on one of two records
C15_Witness ==
    /\ pc = "menu"
    /\ out.op = "update" /\ out.result = "save_failed"
    /\ Cardinality(DOMAIN data.records) = 2
    /\ out.name \in DOMAIN data.records
    /\ data.records[out.name].address # <<>>

====
